---- MODULE Spec2Model ----
(***************************************************************************)
(* IRAS GST register batch checker: the sliding-window rate limiter, the   *)
(* lookup client, the batch dispatcher, the result projector and the        *)
(* driver of the three front ends                                          *)
(*   "cli"  src/batch_script_async.py  (asyncio, process-global deque)     *)
(*   "ui"   src/main.py                (asyncio, session-state deque)      *)
(*   "sync" src/main_requests.py       (sequential, session-state deque)   *)
(* Timestamps are integers; the two rate-limit constants are scaled down.  *)
(***************************************************************************)
EXTENDS Integers, Sequences, FiniteSets, TLC

VARIABLES
    variant,      \* which front end runs
    clock,        \* time.time()
    rate_ts,      \* the rate window (deque of call timestamps, oldest first)
    last,         \* the last direct rate-limiter call: op, argument, clock, window before, result
    run,          \* the timestamps of the latest strictly increasing series of record_call calls
    runClk,       \* TRUE while every call of that series was stamped with the clock
    uens,         \* batch_lookup's identifier list
    concurrency,  \* batch_lookup's concurrency bound
    sem,          \* free permits of asyncio.Semaphore(concurrency)
    pc,           \* per task: "wait" (not started), "fetch" (awaiting the response), "done"
    got,          \* per task: what the remote exchange came to
    ret,          \* per task: the (identifier, status, body) tuple the lookup produced
    results,      \* the result list
    processed,    \* the completed-lookups counter
    progress,     \* the reports made to the progress sink, in order
    trace,        \* per task: the steps it has taken, in order: <<step, count>>
    sent,         \* per task: the number of requests posted to the remote endpoint
    recorded,     \* the number of record_call() calls made by the batch
    window0,      \* the rate window when batch_lookup was called
    returned,     \* batch_lookup has returned
    raised,       \* an exception escaped batch_lookup
    step,         \* the driver's position: "start", "batch", "halt", "done", "crash"
    report,       \* what the driver has shown the user, in order: <<level, cause>>
    can_call,     \* the driver's reading of allowed_calls_remaining() before dispatch
    df_in,        \* the input table
    df_out,       \* the table process_batch_results returned last
    args,         \* what the driver found: the credential variables set, the state of the input file
    proj,         \* the runs of process_batch_results: how many, the first output, the exception
    issued        \* the instants at which lookups were issued to the remote endpoint, in order

batchvars == <<uens, concurrency, sem, pc, got, ret, results, processed, progress, trace,
               sent, recorded, window0, returned, raised>>
drivervars == <<step, report, can_call, df_in, df_out, args, proj>>
vars == <<variant, clock, rate_ts, last, run, runClk, uens, concurrency, sem, pc,
          got, ret, results, processed, progress, trace, sent, recorded, window0,
          returned, raised, step, report, can_call, df_in, df_out, args, proj, issued>>

----------------------------------------------------------------------------
(* Bounds and scaled constants *)

\* RATE_LIMIT_MAX = 100 in the source; scaled down
RATE_LIMIT_MAX == 2
\* RATE_LIMIT_WINDOW_SEC = 3600 in the source; scaled down
RATE_LIMIT_WINDOW_SEC == 3
\* the longest identifier list given to batch_lookup
MaxN == 2
\* the largest concurrency bound given to batch_lookup
MaxConc == 2

\* the default of the optional "now" parameter (Python None)
None == -1

Variants == {"cli", "ui", "sync"}
\* the last instant of the rate-limiter runs: late enough for an entry to expire
MaxTime == RATE_LIMIT_WINDOW_SEC + 2
Times == 0..MaxTime
\* the clock when a batch starts
Clock0 == RATE_LIMIT_WINDOW_SEC + 1
\* the latest instant a batch lasts to: a batch is shorter than the window (at
\* most RATE_LIMIT_MAX lookups, each cut off by the 30 s timeout)
BatchEnd == Clock0 + 1
\* the identifiers of the input table; duplicates are allowed in a list
Ids == {"A", "B"}

Min(a, b) == IF a < b THEN a ELSE b

----------------------------------------------------------------------------
(* Rate limiting *)

\* the while loop of allowed_calls_remaining: pops the head while it is expired
RECURSIVE PopExpired(_, _)
PopExpired(dq, now) ==
    IF dq # <<>> /\ (now - Head(dq)) > RATE_LIMIT_WINDOW_SEC
    THEN PopExpired(Tail(dq), now)
    ELSE dq

\* "if now is None: now = time.time()"
NowOrClock(now, clk) == IF now = None THEN clk ELSE now

\* the window allowed_calls_remaining(now) leaves
RemainingWindow(dq, now, clk) == PopExpired(dq, NowOrClock(now, clk))

\* the value allowed_calls_remaining(now) returns
allowed_calls_remaining(dq, now, clk) ==
    RATE_LIMIT_MAX - Len(RemainingWindow(dq, now, clk))

\* deque(maxlen=RATE_LIMIT_MAX).append: a full deque drops its oldest entry
DequeAppendDropNewest(dq, x) ==
    IF Len(dq) >= RATE_LIMIT_MAX THEN dq ELSE Append(dq, x)
DequeAppend(dq, x) ==
    IF Len(dq) >= RATE_LIMIT_MAX THEN Append(Tail(dq), x) ELSE Append(dq, x)

\* "now or time.time()": None and 0 are both falsy
NowOr(now, clk) == IF now = None \/ now = 0 THEN clk ELSE now

\* record_call(now): the window it leaves. The session-state front ends first
\* call allowed_calls_remaining() (no argument, so against the clock).
record_call_as_set(v, dq, now, clk) ==
    IF \E i \in 1..Len(dq) : dq[i] = NowOr(now, clk)
    THEN dq
    ELSE DequeAppend(dq, NowOr(now, clk))
record_call(v, dq, now, clk) ==
    IF v = "cli"
    THEN DequeAppend(dq, NowOr(now, clk))
    ELSE DequeAppend(RemainingWindow(dq, None, clk), NowOr(now, clk))

NoCall ==
    [op |-> "none", arg |-> None, clk |-> 0, before |-> <<>>, res |-> 0,
     run |-> <<>>, runClk |-> TRUE]

\* a direct call record_call(now)
RecordCall(now) ==
    LET asked == NowOrClock(now, clock)
        cont == run # <<>> /\ run[Len(run)] < asked
    IN  /\ rate_ts' = record_call(variant, rate_ts, now, clock)
        /\ last' = [op |-> "record", arg |-> now, clk |-> clock,
                    before |-> rate_ts, res |-> 0,
                    run |-> <<>>, runClk |-> TRUE]
        /\ run' = IF cont THEN Append(run, asked) ELSE <<asked>>
        /\ runClk' = ((asked = clock) /\ (cont => runClk))
        /\ UNCHANGED <<drivervars, issued, variant, clock>>
        /\ UNCHANGED batchvars

\* a direct call allowed_calls_remaining(now)
AllowedCallsRemaining(now) ==
    /\ rate_ts' = RemainingWindow(rate_ts, now, clock)
    /\ last' = [op |-> "remaining", arg |-> now, clk |-> clock,
                before |-> rate_ts,
                res |-> allowed_calls_remaining(rate_ts, now, clock),
                run |-> run, runClk |-> runClk]
    /\ run' = <<>>
    /\ runClk' = TRUE
    /\ UNCHANGED <<drivervars, issued, variant, clock>>
    /\ UNCHANGED batchvars

\* time passes between two rate-limiter calls
Tick ==
    /\ clock < MaxTime
    /\ clock' = clock + 1
    /\ last' = NoCall
    /\ UNCHANGED <<drivervars, issued, variant, rate_ts, run, runClk>>
    /\ UNCHANGED batchvars

\* no table (df_in = None in main.py; not yet read elsewhere)
NoTable == [obj |-> "none", cols |-> <<>>, rows |-> <<>>]

\* process_batch_results has not run
NoProj == [runs |-> 0, exc |-> "", first |-> NoTable, firstExc |-> "",
           given |-> NoTable]

\* the driver has found nothing yet
NoArgs == [env |-> {}, file |-> "unread"]

\* the driver is not part of the run
NoDriver ==
    /\ report = <<>>
    /\ can_call = None
    /\ df_in = NoTable
    /\ df_out = NoTable
    /\ proj = NoProj
    /\ issued = <<>>

NoBatch ==
    /\ uens = <<>>
    /\ concurrency = 1
    /\ sem = 1
    /\ pc = <<>>
    /\ got = <<>>
    /\ ret = <<>>
    /\ results = <<>>
    /\ processed = 0
    /\ progress = <<>>
    /\ trace = <<>>
    /\ sent = <<>>
    /\ recorded = 0
    /\ window0 = <<>>
    /\ returned = FALSE
    /\ raised = FALSE

\* the rate limiter of a fresh process or session: an empty window
InitRL ==
    /\ variant \in Variants
    /\ clock = 1
    /\ rate_ts = <<>>
    /\ last = NoCall
    /\ run = <<>>
    /\ runClk = TRUE
    /\ NoBatch
    /\ step = "idle"
    /\ args = NoArgs
    /\ NoDriver

NextRL ==
    \/ \E now \in Times \cup {None} : RecordCall(now)
    \/ \E now \in Times \cup {None} : AllowedCallsRemaining(now)
    \/ Tick

SpecRL == InitRL /\ [][NextRL]_vars

----------------------------------------------------------------------------
(* IRAS API client *)

\* What one exchange with the remote endpoint can come to: the exception the
\* POST raised ("" when a response arrived), the response's status, its
\* content-type header (split at ";") and its text.
Exchanges ==
    { [exc |-> "ClientConnectorError", msg |-> "connection refused", status |-> 0,
       ctype |-> <<>>, text |-> ""],
      [exc |-> "", msg |-> "", status |-> 200,
       ctype |-> <<"application/json">>, text |-> "{ok}"],
      [exc |-> "", msg |-> "", status |-> 200,
       ctype |-> <<"application/json", "charset=utf-8">>, text |-> "garbled"],
      [exc |-> "", msg |-> "", status |-> 503,
       ctype |-> <<"text/html">>, text |-> "<html>"] }

NoExchange == [exc |-> "", msg |-> "", status |-> -1, ctype |-> <<>>, text |-> ""]

\* resp.headers.get("content-type", "").startswith("application/json")
IsJsonTypeExact(ctype) == ctype = <<"application/json">>
IsJsonType(ctype) == Len(ctype) >= 1 /\ ctype[1] = "application/json"

\* the texts resp.json() can decode, and what it decodes them to
JsonTexts == {"{ok}"}
JsonValue(text) == [returnCode |-> 10, data |-> [registrationId |-> "X1"]]

\* the try block of search_gst_registered: the exception it ends with, or the
\* (status, body) it returns
TryBlock(x) ==
    IF x.exc # ""
    THEN [exc |-> x.exc, msg |-> x.msg, status |-> 0, body |-> [raw |-> ""]]
    ELSE IF IsJsonType(x.ctype)
    THEN IF x.text \in JsonTexts
         THEN [exc |-> "", msg |-> "", status |-> x.status, body |-> JsonValue(x.text)]
         ELSE [exc |-> "JSONDecodeError", msg |-> "Expecting value", status |-> 0,
               body |-> [raw |-> ""]]
    ELSE [exc |-> "", msg |-> "", status |-> x.status, body |-> [raw |-> x.text]]

\* the except clauses of search_gst_registered: every Exception becomes
\* (0, {"error": "<class>: <message>"})
ExceptNothing(t) == t
ExceptClauses(t) ==
    IF t.exc # ""
    THEN [exc |-> "", msg |-> "", status |-> 0,
          body |-> [error |-> t.exc \o ": " \o t.msg]]
    ELSE t

\* search_gst_registered(reg_id) on an exchange x; exc # "" in the value means
\* the exception left the function
search_gst_registered(x) == ExceptClauses(TryBlock(x))

----------------------------------------------------------------------------
(* Batch processing *)

NoRet == <<"", -1, [raw |-> ""]>>

\* the tuple (uen, status, body) built from what the lookup returned
ResultTuple(i, r) == <<uens[i], r.status, r.body>>

\* results.append((uen, status, body))
AppendResultKeyed(rs, t) ==
    IF \E j \in 1..Len(rs) : rs[j][1] = t[1]
    THEN [j \in 1..Len(rs) |-> IF rs[j][1] = t[1] THEN t ELSE rs[j]]
    ELSE Append(rs, t)
AppendResult(rs, t) == Append(rs, t)

\* "async with sem": a permit is free
SemAlwaysFree(n) == TRUE
SemFreeWithinCap(n) == n > 0 /\ allowed_calls_remaining(rate_ts, None, clock) > 0
SemFree(n) == n > 0

\* "async with sem", entry: the task takes one permit
AcquireNothing(n) == n
Acquire(n) == n - 1

\* "async with sem", exit (normal or by exception): the permit goes back
ReleaseNever(n) == n
Release(n) == n + 1

\* the steps a task takes, appended to its trace in the order of the code
Steps(t, i, ss) == [t EXCEPT ![i] = @ \o ss]

\* progress_callback(...): the sink receives the arguments of the call
ReportTwice(sink, r) == Append(Append(sink, r), r)
ReportProgress(sink, r) == Append(sink, r)

\* the arguments of the command-line script's report: (processed, len(uens))
CountOfTotal(k, n) == <<k, n>>

RECURSIVE Gcd(_, _)
Gcd(a, b) == IF b = 0 THEN a ELSE Gcd(b, a % b)

\* the argument of the sequential front end's report: the single number
\* (idx + 1) / len(uens), held as the fraction in lowest terms
Fraction(k, n) == <<k \div Gcd(k, n), n \div Gcd(k, n)>>

\* "await asyncio.gather(...)" (the end of the for loop in the sequential front
\* end): every lookup is over
GatherAny(p) == \E i \in DOMAIN p : p[i] = "done"
GatherDone(p) == \A i \in DOMAIN p : p[i] = "done"

\* the list asyncio.gather returns: the tasks' values in the order of the tasks
GatherResultsPadded(r) == IF r = <<>> THEN <<NoRet>> ELSE r
GatherResultsReversed(r) == [i \in 1..Len(r) |-> r[Len(r) + 1 - i]]
GatherResults(r) == r

\* a task enters "async with sem", records the call and posts the request
TaskStart(i) ==
    /\ pc[i] = "wait"
    /\ SemFree(sem)
    /\ sem' = Acquire(sem)
    /\ rate_ts' = record_call(variant, rate_ts, None, clock)
    /\ recorded' = recorded + 1
    /\ sent' = [sent EXCEPT ![i] = @ + 1]
    /\ pc' = [pc EXCEPT ![i] = "fetch"]
    /\ trace' = Steps(trace, i, <<<<"acquire", 0>>, <<"record", 0>>,
                                  <<"lookup", 0>>>>)
    /\ issued' = Append(issued, clock)
    /\ UNCHANGED <<drivervars, variant, clock, last, run, runClk, uens, concurrency, got, ret,
                   results, processed, progress, window0, returned, raised>>

\* an exception leaves the lookup: the task fails, "async with sem" releases
\* the permit and asyncio.gather raises in batch_lookup
TaskRaises(i, x) ==
    /\ pc' = [pc EXCEPT ![i] = "failed"]
    /\ got' = [got EXCEPT ![i] = x]
    /\ sem' = Release(sem)
    /\ raised' = TRUE
    /\ trace' = Steps(trace, i, <<<<"release", 0>>>>)
    /\ UNCHANGED <<drivervars, issued, variant, clock, rate_ts, last, run, runClk, uens, concurrency,
                   ret, results, processed, progress, sent, recorded, window0,
                   returned>>

\* batch_script_async.py, _fetch up to the await of the lookup
FetchStart(i) == variant = "cli" /\ TaskStart(i)

\* batch_script_async.py, _fetch from the lookup's completion to its return
FetchDone(i, x) ==
    /\ variant = "cli"
    /\ pc[i] = "fetch"
    /\ LET r == search_gst_registered(x)
       IN  IF r.exc # ""
           THEN TaskRaises(i, x)
           ELSE /\ processed' = processed + 1
                /\ progress' = ReportProgress(progress,
                                               CountOfTotal(processed + 1, Len(uens)))
                /\ ret' = [ret EXCEPT ![i] = ResultTuple(i, r)]
                /\ got' = [got EXCEPT ![i] = x]
                /\ pc' = [pc EXCEPT ![i] = "done"]
                /\ sem' = Release(sem)
                /\ trace' = Steps(trace, i, <<<<"progress", processed + 1>>,
                                              <<"release", 0>>>>)
                /\ UNCHANGED <<drivervars, issued, variant, clock, rate_ts, last, run, runClk, uens,
                               concurrency, results, sent, recorded, window0,
                               returned, raised>>

\* main.py, _one up to the await of the lookup
OneStart(i) == variant = "ui" /\ TaskStart(i)

\* main.py, _one from the lookup's completion to its end
OneDone(i, x) ==
    /\ variant = "ui"
    /\ pc[i] = "fetch"
    /\ LET r == search_gst_registered(x)
       IN  IF r.exc # ""
           THEN TaskRaises(i, x)
           ELSE /\ results' = AppendResult(results, ResultTuple(i, r))
                /\ ret' = [ret EXCEPT ![i] = ResultTuple(i, r)]
                /\ got' = [got EXCEPT ![i] = x]
                /\ pc' = [pc EXCEPT ![i] = "done"]
                /\ sem' = Release(sem)
                /\ trace' = Steps(trace, i, <<<<"append", Len(results) + 1>>,
                                              <<"release", 0>>>>)
                /\ UNCHANGED <<drivervars, issued, variant, clock, rate_ts, last, run, runClk, uens,
                               concurrency, processed, progress, sent, recorded,
                               window0, returned, raised>>

\* main_requests.py, the loop body of batch_lookup up to the lookup
SeqStart(i) ==
    /\ variant = "sync"
    /\ ~raised
    /\ pc[i] = "wait"
    /\ i = Len(results) + 1
    /\ \A j \in DOMAIN pc : pc[j] # "fetch"
    /\ rate_ts' = record_call(variant, rate_ts, None, clock)
    /\ recorded' = recorded + 1
    /\ sent' = [sent EXCEPT ![i] = @ + 1]
    /\ pc' = [pc EXCEPT ![i] = "fetch"]
    /\ trace' = Steps(trace, i, <<<<"record", 0>>, <<"lookup", 0>>>>)
    /\ issued' = Append(issued, clock)
    /\ UNCHANGED <<drivervars, variant, clock, last, run, runClk, uens, concurrency, sem, got,
                   ret, results, processed, progress, window0, returned, raised>>

\* main_requests.py, the loop body of batch_lookup from the lookup's return
SeqDone(i, x) ==
    /\ variant = "sync"
    /\ pc[i] = "fetch"
    /\ LET r == search_gst_registered(x)
       IN  IF r.exc # ""
           THEN /\ pc' = [pc EXCEPT ![i] = "failed"]
                /\ got' = [got EXCEPT ![i] = x]
                /\ raised' = TRUE
                /\ UNCHANGED <<drivervars, issued, variant, clock, rate_ts, last, run, runClk, uens, trace,
                               concurrency, sem, ret, results, processed, progress,
                               sent, recorded, window0, returned>>
           ELSE /\ results' = AppendResult(results, ResultTuple(i, r))
                /\ progress' = ReportProgress(progress, Fraction(i, Len(uens)))
                /\ ret' = [ret EXCEPT ![i] = ResultTuple(i, r)]
                /\ got' = [got EXCEPT ![i] = x]
                /\ pc' = [pc EXCEPT ![i] = "done"]
                /\ trace' = Steps(trace, i, <<<<"append", Len(results) + 1>>,
                                              <<"progress", i>>>>)
                /\ UNCHANGED <<drivervars, issued, variant, clock, rate_ts, last, run, runClk, uens,
                               concurrency, sem, processed, sent, recorded, window0,
                               returned, raised>>

\* batch_lookup returns its result list
Return ==
    /\ ~returned
    /\ ~raised
    /\ GatherDone(pc)
    /\ returned' = TRUE
    /\ results' = IF variant = "cli" THEN GatherResults(ret) ELSE results
    /\ UNCHANGED <<drivervars, issued, variant, clock, rate_ts, last, run, runClk, uens, trace, concurrency,
                   sem, pc, got, ret, processed, progress, sent, recorded, window0,
                   raised>>

\* time passes while lookups are awaited
BatchTick ==
    /\ ~returned
    /\ clock < BatchEnd
    /\ clock' = clock + 1
    /\ UNCHANGED <<drivervars, issued, variant, rate_ts, last, run, runClk>>
    /\ UNCHANGED batchvars

\* the identifier lists a driver can hand over (identifiers are opaque, so a
\* list starts with "A")
IdLists == {u \in UNION {[1..n -> Ids] : n \in 0..MaxN} : u = <<>> \/ u[1] = "A"}

\* The windows batch_lookup can start from. The command-line script's window
\* is created empty with the process and nothing records before the batch;
\* a session's window holds earlier calls, oldest first, none expired (the
\* driver has just called allowed_calls_remaining()).
StartStamps == {Clock0 - RATE_LIMIT_WINDOW_SEC, Clock0}
StartWindowsOfSession(v) ==
    {w \in UNION {[1..n -> StartStamps] : n \in 0..RATE_LIMIT_MAX} :
        \A i \in 1..(Len(w) - 1) : w[i] <= w[i + 1]}
StartWindows(v) ==
    IF v = "cli"
    THEN {<<>>}
    ELSE {w \in UNION {[1..n -> StartStamps] : n \in 0..RATE_LIMIT_MAX} :
            \A i \in 1..(Len(w) - 1) : w[i] <= w[i + 1]}

Init ==
    /\ variant \in Variants
    /\ clock = Clock0
    /\ rate_ts \in StartWindows(variant)
    /\ window0 = rate_ts
    /\ last = NoCall
    /\ run = <<>>
    /\ runClk = TRUE
    /\ uens \in IdLists
    /\ concurrency \in (IF variant = "sync" THEN {1} ELSE 1..MaxConc)
    /\ sem = concurrency
    /\ pc = [i \in 1..Len(uens) |-> "wait"]
    /\ got = [i \in 1..Len(uens) |-> NoExchange]
    /\ ret = [i \in 1..Len(uens) |-> NoRet]
    /\ results = <<>>
    /\ processed = 0
    /\ progress = <<>>
    /\ trace = [i \in 1..Len(uens) |-> <<>>]
    /\ sent = [i \in 1..Len(uens) |-> 0]
    /\ recorded = 0
    /\ returned = FALSE
    /\ raised = FALSE
    /\ step = "batch"
    /\ args = NoArgs
    /\ NoDriver

Next ==
    \/ \E i \in DOMAIN pc : FetchStart(i)
    \/ \E i \in DOMAIN pc : \E x \in Exchanges : FetchDone(i, x)
    \/ \E i \in DOMAIN pc : OneStart(i)
    \/ \E i \in DOMAIN pc : \E x \in Exchanges : OneDone(i, x)
    \/ \E i \in DOMAIN pc : SeqStart(i)
    \/ \E i \in DOMAIN pc : \E x \in Exchanges : SeqDone(i, x)
    \/ Return
    \/ BatchTick

Spec == Init /\ [][Next]_vars

----------------------------------------------------------------------------
(* The result projector: process_batch_results *)

\* A cell as pandas holds it: NaN for an empty spreadsheet cell, the characters
\* of a text cell, or a value taken from a response body.
NaN == [t |-> "empty"]
Text(chars) == [t |-> "text", chars |-> chars]
StrValue(s) == [t |-> "str", str |-> s]
IntValue(n) == [t |-> "int", int |-> n]

\* Series.astype(str) on a column of text and empty cells: NaN becomes "nan"
astype_str(c) == IF c.t = "empty" THEN <<"n", "a", "n">> ELSE c.chars

\* Series.str.strip(): leading and trailing whitespace removed
Whitespace == {" "}
RECURSIVE lstrip(_)
lstrip(s) == IF s # <<>> /\ Head(s) \in Whitespace THEN lstrip(Tail(s)) ELSE s
RECURSIVE rstrip(_)
rstrip(s) ==
    IF s # <<>> /\ s[Len(s)] \in Whitespace
    THEN rstrip(SubSeq(s, 1, Len(s) - 1))
    ELSE s
str_strip(s) == rstrip(lstrip(s))

\* the Python string made of the characters
RECURSIVE Join(_)
Join(s) == IF s = <<>> THEN "" ELSE Head(s) \o Join(Tail(s))

\* df[name]: the position of the column called name
ColumnIndex(df, name) == CHOOSE i \in 1..Len(df.cols) : df.cols[i] = name

\* df[name].astype(str).str.strip(), as a list of strings
ColumnTokens(df, name) ==
    [r \in 1..Len(df.rows) |->
        Join(str_strip(astype_str(df.rows[r][ColumnIndex(df, name)])))]

\* isinstance(v, dict); a record with a field "py" stands for a Python value
\* that is not a dict (None, a list, a string)
IsDict(v) == "py" \notin DOMAIN v

\* the default {} of body.get("data", {})
EmptyDict == [k \in {} |-> ""]

\* json.dumps(body, ensure_ascii=False), keys in the order of the response
RECURSIVE JoinWith(_, _)
JoinWith(items, sep) ==
    IF items = <<>> THEN ""
    ELSE IF Len(items) = 1 THEN Head(items)
    ELSE Head(items) \o sep \o JoinWith(Tail(items), sep)
Quoted(s) == "\"" \o s \o "\""
DumpsOther(v) ==
    CASE v.py = "NoneType" -> "null"
      [] v.py = "list" -> "[]"
      [] OTHER -> Quoted(v.py)
DumpsData(d) ==
    IF ~IsDict(d) THEN DumpsOther(d)
    ELSE "{" \o JoinWith(
           (IF "registrationId" \in DOMAIN d
            THEN <<Quoted("registrationId") \o ": " \o Quoted(d.registrationId)>>
            ELSE <<>>)
           \o (IF "name" \in DOMAIN d
               THEN <<Quoted("name") \o ": " \o Quoted(d.name)>>
               ELSE <<>>), ", ") \o "}"
json_dumps(body) ==
    IF ~IsDict(body) THEN DumpsOther(body)
    ELSE "{" \o JoinWith(
           (IF "returnCode" \in DOMAIN body
            THEN <<Quoted("returnCode") \o ": " \o ToString(body.returnCode)>>
            ELSE <<>>)
           \o (IF "data" \in DOMAIN body
               THEN <<Quoted("data") \o ": " \o DumpsData(body.data)>>
               ELSE <<>>)
           \o (IF "raw" \in DOMAIN body
               THEN <<Quoted("raw") \o ": " \o Quoted(body.raw)>>
               ELSE <<>>)
           \o (IF "error" \in DOMAIN body
               THEN <<Quoted("error") \o ": " \o Quoted(body.error)>>
               ELSE <<>>), ", ") \o "}"

\* the loop that fills out_map: the position in the result list of the entry
\* out_map keeps for the identifier ("if uen not in out_map")
OutMapLast(rs, uen) ==
    CHOOSE j \in 1..Len(rs) :
        rs[j][1] = uen /\ \A k \in (j + 1)..Len(rs) : rs[k][1] # uen
OutMap(rs, uen) ==
    CHOOSE j \in 1..Len(rs) :
        rs[j][1] = uen /\ \A k \in 1..(j - 1) : rs[k][1] # uen

\* the three derived cells of a row without a result
BlankFields == <<StrValue(""), StrValue(""), StrValue("")>>

\* "if uen not in out_map: return '', '', ''"
MissingRaises(uen) == [exc |-> "KeyError", row |-> BlankFields]
Missing(uen) == [exc |-> "", row |-> BlankFields]

\* extract_row(uen): the derived cells, or the exception that leaves it
extract_row(rs, uen) ==
    IF \A j \in 1..Len(rs) : rs[j][1] # uen
    THEN Missing(uen)
    ELSE LET body == rs[OutMap(rs, uen)][3]
             data == IF "data" \in DOMAIN body THEN body.data ELSE EmptyDict
         IN  IF ~IsDict(body)
             THEN [exc |-> "",
                   row |-> <<StrValue(""), StrValue(""), StrValue(json_dumps(body))>>]
             ELSE IF ~IsDict(data)
             THEN [exc |-> "AttributeError", row |-> BlankFields]
             ELSE [exc |-> "",
                   row |-> <<IF "returnCode" \in DOMAIN body
                             THEN IntValue(body.returnCode) ELSE StrValue(""),
                             IF "registrationId" \in DOMAIN data
                             THEN StrValue(data.registrationId) ELSE StrValue(""),
                             StrValue(json_dumps(body))>>]

\* the three columns process_batch_results assigns, in order
DerivedColumns == <<"response-status", "response-registrationId", "json-response">>

\* df_in.copy(): a new table object with the same content
DataFrameAlias(df) == df
DataFrameCopy(df) == [df EXCEPT !.obj = "copy"]

\* df[name] = values, column names: name is appended unless it is there
SetColumnName(cols, name) ==
    IF \E i \in 1..Len(cols) : cols[i] = name THEN cols ELSE Append(cols, name)

\* df[name] = values, one row: the cell of the column called name is
\* replaced, or a new cell is appended
SetColumnCell(cols, row, name, value) ==
    LET at == {i \in 1..Len(cols) : cols[i] = name}
    IN  IF at # {}
        THEN [row EXCEPT ![CHOOSE i \in at : TRUE] = value]
        ELSE Append(row, value)

\* df[[c1, c2, c3]] = values: one column after the other
SetColumns(df, names, values) ==
    LET cols1 == SetColumnName(df.cols, names[1])
        cols2 == SetColumnName(cols1, names[2])
        cols3 == SetColumnName(cols2, names[3])
        Row(r) ==
            LET v == values[r]
                row1 == SetColumnCell(df.cols, df.rows[r], names[1], v[1])
                row2 == SetColumnCell(cols1, row1, names[2], v[2])
            IN  SetColumnCell(cols2, row2, names[3], v[3])
    IN  [obj |-> df.obj, cols |-> cols3, rows |-> [r \in 1..Len(df.rows) |-> Row(r)]]

\* process_batch_results(df_in, col_a_name, results): the exception that leaves
\* it (or ""), the returned table and the input table object after the call.
\* pandas refuses the assignment of an empty list to three columns
\* ("Columns must be same length as key").
process_batch_results(df, col_a_name, rs) ==
    LET tokens == ColumnTokens(df, col_a_name)
        failed == {r \in 1..Len(tokens) : extract_row(rs, tokens[r]).exc # ""}
        target == DataFrameCopy(df)
        written == SetColumns(target, DerivedColumns,
                              [r \in 1..Len(tokens) |-> extract_row(rs, tokens[r]).row])
    IN  IF failed # {}
        THEN [exc |-> extract_row(rs, tokens[CHOOSE r \in failed :
                                                \A q \in failed : r <= q]).exc,
              df_in |-> df, df_out |-> NoTable]
        ELSE IF Len(tokens) = 0
        THEN [exc |-> "ValueError", df_in |-> df, df_out |-> NoTable]
        ELSE [exc |-> "",
              df_in |-> IF target.obj = df.obj THEN written ELSE df,
              df_out |-> written]

\* a call of process_batch_results on the input table and the result list
ProcessBatchResults ==
    /\ step = "project"
    /\ proj.runs < 2
    /\ LET o == process_batch_results(df_in, df_in.cols[1], results)
       IN  /\ df_in' = o.df_in
           /\ df_out' = o.df_out
           /\ proj' = [runs |-> proj.runs + 1,
                       exc |-> o.exc,
                       first |-> IF proj.runs = 0 THEN o.df_out ELSE proj.first,
                       firstExc |-> IF proj.runs = 0 THEN o.exc ELSE proj.firstExc,
                       given |-> IF proj.runs = 0 THEN df_in ELSE proj.given]
    /\ UNCHANGED <<variant, clock, rate_ts, last, run, runClk, step, report, can_call,
                   args, issued>>
    /\ UNCHANGED batchvars

\* the column-A cells of the input tables
Cells == {NaN, Text(<<" ">>), Text(<<"A">>), Text(<<" ", "B", " ">>)}

\* the input tables: column A and one more column, which may carry the name of
\* a derived column (an earlier output given as input)
OtherColumns == {"Name", "json-response"}
Table(other, column) ==
    [obj |-> "input",
     cols |-> <<"UEN", other>>,
     rows |-> [r \in 1..Len(column) |-> <<column[r], Text(<<"x">>)>>]]
ProjTables ==
    {Table(other, column) :
        other \in OtherColumns,
        column \in UNION {[1..n -> Cells] : n \in 0..MaxN}}

\* the response bodies a result can carry: structured with and without
\* returnCode and data, data without registrationId, data null, data not an
\* object, raw text, an error, and a body that is not an object
ProjBodies ==
    {[returnCode |-> 10, data |-> [registrationId |-> "X1"]],
     [returnCode |-> 30],
     [data |-> [registrationId |-> "X2"]],
     [returnCode |-> 20, data |-> [name |-> "n"]],
     [returnCode |-> 30, data |-> [py |-> "NoneType"]],
     [returnCode |-> 30, data |-> [py |-> "str"]],
     [raw |-> "<html>"],
     [error |-> "ClientConnectorError: refused"],
     [py |-> "list"]}

\* the status a lookup returns with the body
StatusOf(body) == IF IsDict(body) /\ "error" \in DOMAIN body THEN 0 ELSE 200

\* the result lists, of up to two results so that an identifier can occur
\* twice; identifiers are opaque, so a list starts with "A"
ProjResults ==
    {rs \in UNION {[1..n -> {<<u, StatusOf(b), b>> : u \in Ids, b \in ProjBodies}] :
                     n \in 0..2} :
        rs = <<>> \/ rs[1][1] = "A"}

\* process_batch_results is the same function in the three front ends; it is
\* run here as the command-line script's
InitProj ==
    /\ variant = "cli"
    /\ clock = Clock0
    /\ rate_ts = <<>>
    /\ last = NoCall
    /\ run = <<>>
    /\ runClk = TRUE
    /\ uens = <<>>
    /\ concurrency = 1
    /\ sem = 1
    /\ pc = <<>>
    /\ got = <<>>
    /\ ret = <<>>
    /\ results \in ProjResults
    /\ processed = 0
    /\ progress = <<>>
    /\ trace = <<>>
    /\ sent = <<>>
    /\ recorded = 0
    /\ window0 = <<>>
    /\ returned = TRUE
    /\ raised = FALSE
    /\ step = "project"
    /\ args = NoArgs
    /\ report = <<>>
    /\ can_call = None
    /\ df_in \in ProjTables
    /\ df_out = NoTable
    /\ proj = NoProj
    /\ issued = <<>>

NextProj == ProcessBatchResults

SpecProj == InitProj /\ [][NextProj]_vars

----------------------------------------------------------------------------
(* The drivers: main_async of the command-line script and the page script of *)
(* the two Streamlit front ends, from their start to the output table       *)

\* ENV_VAR_CLIENT_ID and ENV_VAR_CLIENT_SECRET
CredentialVars == {"IRAS_CLIENT_ID", "IRAS_CLIENT_SECRET"}

\* "if not client_id or not client_secret" (missing_env in the page scripts)
BothMissing(env) == env = {}
MissingEnv(env) == env # CredentialVars

\* what the driver shows for a cause
Message(v, cause) ==
    IF v = "cli"
    THEN CASE cause = "credentials" -> "Error: Environment variables must be set."
           [] cause = "notfound" -> "Error: Input file not found."
           [] cause = "unreadable" -> "Error reading Excel"
           [] cause = "nocolumns" -> "Error: Excel has no columns."
           [] cause = "ratelimit" -> "Rate limit reached (100/hour). Please try again later."
           [] cause = "truncated" -> "Warning: Only processing first UENs due to rate limit (100/hour)."
    ELSE CASE cause = "credentials" -> "Missing env"
           [] cause = "unreadable" -> "Failed to read Excel"
           [] cause = "nocolumns" -> "The Excel has no columns. Column A must contain UENs."
           [] cause = "ratelimit" -> "Rate limit reached (100/hour). Try again later."
           [] cause = "truncated" -> "Only processing first rows due to the 100/hour API limit."

\* "uens = [u for u in uens_raw if u]" on column A
NonBlank(tokens) == SelectSeq(tokens, LAMBDA u : u # "")
ColumnA(df) == NonBlank(ColumnTokens(df, df.cols[1]))

\* "uens = uens[:can_call]"
KeepAll(us, n) == us
Truncate(us, n) == SubSeq(us, 1, Min(n, Len(us)))

\* the call batch_lookup(uens, concurrency)
Dispatch(us, conc) ==
    /\ uens' = us
    /\ concurrency' = conc
    /\ sem' = conc
    /\ pc' = [i \in 1..Len(us) |-> "wait"]
    /\ got' = [i \in 1..Len(us) |-> NoExchange]
    /\ ret' = [i \in 1..Len(us) |-> NoRet]
    /\ results' = <<>>
    /\ processed' = 0
    /\ progress' = <<>>
    /\ trace' = [i \in 1..Len(us) |-> <<>>]
    /\ sent' = [i \in 1..Len(us) |-> 0]
    /\ recorded' = 0
    /\ window0' = rate_ts'
    /\ returned' = FALSE
    /\ raised' = FALSE

\* the run stops with the messages shown; no batch is started
Halt(shown) ==
    /\ step' = "halt"
    /\ report' = report \o shown
    /\ UNCHANGED <<df_out, proj, issued>>
    /\ UNCHANGED batchvars

\* the rate-limit budgeting, the truncation and the call of batch_lookup
\* ("Check rate limit" to "await batch_lookup" in main_async, "Rate-limit
\* budgeting" to the batch_lookup call in the page scripts); the environment
\* selector is one of the keys of URLS (argparse choices, selectbox options)
CapAndDispatch(conc) ==
    LET r == allowed_calls_remaining(rate_ts, None, clock)
        found == ColumnA(df_in')
        warn == IF Len(found) > r
                THEN <<<<"warning", Message(variant, "truncated")>>>>
                ELSE <<>>
    IN  /\ can_call' = r
        /\ rate_ts' = RemainingWindow(rate_ts, None, clock)
        /\ IF r <= 0
           THEN Halt(<<<<"error", Message(variant, "ratelimit")>>>>)
           ELSE /\ step' = "batch"
                /\ report' = report \o warn
                /\ Dispatch(Truncate(found, r), conc)
                /\ UNCHANGED <<df_out, proj, issued>>

\* main_async up to the call of batch_lookup, or to sys.exit(1)
MainAsync(env, file, table, conc) ==
    /\ variant = "cli"
    /\ step = "start"
    /\ UNCHANGED <<variant, clock, last, run, runClk>>
    /\ IF MissingEnv(env)
       THEN /\ args' = [env |-> env, file |-> "unread"]
            /\ Halt(<<<<"error", Message(variant, "credentials")>>>>)
            /\ UNCHANGED <<rate_ts, can_call, df_in>>
       ELSE IF file # "ok"
       THEN /\ args' = [env |-> env, file |-> file]
            /\ Halt(<<<<"error", Message(variant, file)>>>>)
            /\ UNCHANGED <<rate_ts, can_call, df_in>>
       ELSE /\ args' = [env |-> env, file |-> file]
            /\ df_in' = table
            /\ IF table.cols = <<>>
               THEN /\ Halt(<<<<"error", Message(variant, "nocolumns")>>>>)
                    /\ UNCHANGED <<rate_ts, can_call>>
               ELSE CapAndDispatch(conc)

\* one run of the page script with an uploaded file and "Process File"
\* pressed (the button is disabled while a credential is missing)
PageRun(env, file, table, conc) ==
    /\ variant \in {"ui", "sync"}
    /\ step = "start"
    /\ UNCHANGED <<variant, clock, last, run, runClk>>
    /\ args' = [env |-> env, file |-> file]
    /\ df_in' = IF file = "ok" THEN table ELSE NoTable
    /\ LET missing == IF MissingEnv(env)
                      THEN <<<<"warning", Message(variant, "credentials")>>>>
                      ELSE <<>>
           failed == IF file # "ok"
                     THEN <<<<"error", Message(variant, "unreadable")>>>>
                     ELSE <<>>
       IN  IF MissingEnv(env) \/ file # "ok"
           THEN /\ Halt(missing \o failed)
                /\ rate_ts' = RemainingWindow(rate_ts, None, clock)
                /\ UNCHANGED can_call
           ELSE IF table.cols = <<>>
           THEN /\ Halt(<<<<"error", Message(variant, "nocolumns")>>>>)
                /\ rate_ts' = RemainingWindow(rate_ts, None, clock)
                /\ UNCHANGED can_call
           ELSE CapAndDispatch(conc)

\* the driver's call of process_batch_results once batch_lookup has returned;
\* an exception ends the run
Project ==
    /\ step = "batch"
    /\ returned
    /\ LET o == process_batch_results(df_in, df_in.cols[1], results)
       IN  /\ df_in' = o.df_in
           /\ df_out' = o.df_out
           /\ proj' = [runs |-> 1, exc |-> o.exc, first |-> o.df_out,
                       firstExc |-> o.exc, given |-> df_in]
           /\ step' = IF o.exc = "" THEN "done" ELSE "crash"
    /\ UNCHANGED <<variant, clock, rate_ts, last, run, runClk, report, can_call, args, issued>>
    /\ UNCHANGED batchvars

\* the input tables of the drivers: no column at all, or column A and one
\* more column; one table has more identifiers than the hourly cap
DrvCells == {NaN, Text(<<" ">>), Text(<<" ", "A">>)}
DrvTables ==
    {[obj |-> "input", cols |-> <<>>, rows |-> <<>>]}
    \cup {Table("Name", column) : column \in UNION {[1..n -> DrvCells] : n \in 0..MaxN}}
    \cup {Table("Name", [i \in 1..(RATE_LIMIT_MAX + 1) |-> Text(<<" ", "A">>)])}

\* what reading the input file can come to ("notfound": the command-line
\* script's path does not exist)
FileStates(v) == IF v = "cli" THEN {"ok", "unreadable", "notfound"} ELSE {"ok", "unreadable"}

InitDrv ==
    /\ variant \in Variants
    /\ clock = Clock0
    /\ rate_ts \in StartWindows(variant)
    /\ last = NoCall
    /\ run = <<>>
    /\ runClk = TRUE
    /\ uens = <<>>
    /\ concurrency = 1
    /\ sem = 1
    /\ pc = <<>>
    /\ got = <<>>
    /\ ret = <<>>
    /\ results = <<>>
    /\ processed = 0
    /\ progress = <<>>
    /\ trace = <<>>
    /\ sent = <<>>
    /\ recorded = 0
    /\ window0 = rate_ts
    /\ returned = FALSE
    /\ raised = FALSE
    /\ step = "start"
    /\ args = NoArgs
    /\ NoDriver

\* the runs of the command-line script
RunScript ==
    /\ variant = "cli"
    /\ step = "start"
    /\ \E env \in SUBSET CredentialVars : \E file \in FileStates(variant) :
         \E table \in DrvTables : \E conc \in 1..MaxConc :
           MainAsync(env, file, table, conc)

\* the runs of the page scripts
RunPage ==
    /\ variant \in {"ui", "sync"}
    /\ step = "start"
    /\ \E env \in SUBSET CredentialVars : \E file \in FileStates(variant) :
         \E table \in DrvTables :
           \E conc \in (IF variant = "sync" THEN {1} ELSE 1..MaxConc) :
             PageRun(env, file, table, conc)

\* what the remote service does in the drivers' runs: it answers with JSON or
\* the connection fails
DrvExchanges == {x \in Exchanges : x.exc # "" \/ x.text \in JsonTexts}

\* the steps of batch_lookup, once it is called
BatchStep ==
    /\ step = "batch"
    /\ \/ \E i \in DOMAIN pc : FetchStart(i)
       \/ \E i \in DOMAIN pc : \E x \in DrvExchanges : FetchDone(i, x)
       \/ \E i \in DOMAIN pc : OneStart(i)
       \/ \E i \in DOMAIN pc : \E x \in DrvExchanges : OneDone(i, x)
       \/ \E i \in DOMAIN pc : SeqStart(i)
       \/ \E i \in DOMAIN pc : \E x \in DrvExchanges : SeqDone(i, x)
       \/ Return
       \/ BatchTick

NextDrv ==
    \/ RunScript
    \/ RunPage
    \/ BatchStep
    \/ Project

SpecDrv == InitDrv /\ [][NextDrv]_vars

----------------------------------------------------------------------------
(* Properties of the rate limiter, checked under SpecRL *)

\* the instant a direct call was made for
LastNow == NowOrClock(last.arg, last.clk)

LastN(s, n) == SubSeq(s, Len(s) - n + 1, Len(s))

\* the retained timestamps lying within [now - RATE_LIMIT_WINDOW_SEC, now]
InWindow(dq, now) ==
    {i \in 1..Len(dq) : now - RATE_LIMIT_WINDOW_SEC <= dq[i] /\ dq[i] <= now}

\* C4: after record(t) calls with any timestamps in any order, a query
\* remaining(now), made at or after every retained timestamp, returns a value
\* that, added to the number of retained timestamps within [now - WINDOW, now],
\* gives MAX_CALLS, and the window never holds more than MAX_CALLS timestamps.
C4_RemainingPlusInWindow ==
    /\ Len(rate_ts) <= RATE_LIMIT_MAX
    /\ (last.op = "remaining" /\ \A i \in 1..Len(rate_ts) : rate_ts[i] <= LastNow) =>
          last.res + Cardinality(InWindow(rate_ts, LastNow)) = RATE_LIMIT_MAX

\* C5: right after remaining(now) no retained timestamp, wherever it sits, is
\* older than WINDOW_SECONDS relative to now, and the value returned is
\* MAX_CALLS minus the retained count.
C5_NoExpiredAfterQuery ==
    last.op = "remaining" =>
        /\ \A i \in 1..Len(rate_ts) : LastNow - rate_ts[i] <= RATE_LIMIT_WINDOW_SEC
        /\ last.res = RATE_LIMIT_MAX - Len(rate_ts)

\* C9: record(now) appends the given now, 0 included, as the newest entry and
\* changes nothing else, except that a full window loses its oldest entry.
C9_RecordAppendsGivenNow ==
    (last.op = "record" /\ last.arg # None) =>
        rate_ts = IF Len(last.before) >= RATE_LIMIT_MAX
                  THEN Append(Tail(last.before), last.arg)
                  ELSE Append(last.before, last.arg)

\* the case of C10: more than MAX_CALLS calls recorded at strictly increasing
\* timestamps spanning at most one window, then remaining() asked at the last
\* of them. In the session-state front ends record_call evicts against the
\* clock, so there the calls are the ones stamped with the clock.
C10_Case ==
    /\ last.op = "remaining"
    /\ Len(last.run) > RATE_LIMIT_MAX
    /\ last.run[Len(last.run)] - last.run[1] <= RATE_LIMIT_WINDOW_SEC
    /\ LastNow = last.run[Len(last.run)]
    /\ (variant = "cli" \/ last.runClk)

\* C10: in that case remaining() is exactly 0 and the window holds exactly the
\* MAX_CALLS most recent timestamps.
C10_ClampsAtZero ==
    C10_Case =>
        /\ last.res = 0
        /\ rate_ts = LastN(last.run, RATE_LIMIT_MAX)

C10_Witness ==
    /\ C10_Case
    /\ last.res = 0
    /\ Len(last.before) = RATE_LIMIT_MAX

\* the number of entries the query evicted from the head of the window
C11_Dropped == Len(last.before) - Len(rate_ts)

\* C11: the window slides. A call recorded at t0 and not evicted by capacity
\* is not counted by remaining(now) when now > t0 + WINDOW_SECONDS and is
\* counted when t0 <= now <= t0 + WINDOW_SECONDS.
C11_WindowSlides ==
    last.op = "remaining" =>
        /\ rate_ts = SubSeq(last.before, C11_Dropped + 1, Len(last.before))
        /\ last.res = RATE_LIMIT_MAX - Len(rate_ts)
        /\ \A i \in 1..Len(last.before) :
              /\ LastNow > last.before[i] + RATE_LIMIT_WINDOW_SEC => i <= C11_Dropped
              /\ (last.before[i] <= LastNow
                    /\ LastNow <= last.before[i] + RATE_LIMIT_WINDOW_SEC)
                   => i > C11_Dropped

----------------------------------------------------------------------------
(* Properties of the batch dispatcher and the lookup client, checked under Spec *)

N == Len(uens)
InFlight == {i \in DOMAIN pc : pc[i] = "fetch"}
Count(seq, v) == Cardinality({j \in 1..Len(seq) : seq[j] = v})
Tags(rs) == [j \in 1..Len(rs) |-> rs[j][1]]
\* the response's media type is application/json, whatever its parameters
JsonContentType(x) == x.ctype # <<>> /\ Head(x.ctype) = "application/json"
HasError(body) == "error" \in DOMAIN body /\ body.error # ""

\* C1: batch_lookup returns exactly N results for N identifiers, the results'
\* identifiers are the input identifiers counted with their multiplicity, and
\* every input identifier was looked up exactly once.
C1_OneResultPerIdentifier ==
    returned =>
        /\ Len(results) = N
        /\ \A id \in Ids : Count(Tags(results), id) = Count(uens, id)
        /\ \A i \in 1..N : sent[i] = 1

C1_Witness ==
    /\ returned
    /\ N >= 2
    /\ uens[1] = uens[2]
    /\ concurrency >= 2
    /\ results[1] # ret[1]

\* C2: at every point of a batch the lookups in flight number at most
\* min(C, N).
C2_InFlightBounded == Cardinality(InFlight) <= Min(concurrency, N)

C2_Witness ==
    /\ variant # "sync"
    /\ Cardinality(InFlight) = concurrency
    /\ \E i \in DOMAIN pc : pc[i] = "wait"

\* C3: once batch_lookup has returned, every lookup has completed or failed,
\* none is in flight and no permit is held.
C3_FullBarrier ==
    returned =>
        /\ \A i \in DOMAIN pc : pc[i] = "done"
        /\ InFlight = {}
        /\ sem = concurrency

C3_Witness ==
    /\ returned
    /\ N >= 2
    /\ concurrency >= 2
    /\ \E i \in 1..N : ret[i][2] = 0

KeptOfStart ==
    IF N = 0
    THEN 1..Len(window0)
    ELSE {i \in 1..Len(window0) :
            rate_ts[Len(rate_ts)] - window0[i] <= RATE_LIMIT_WINDOW_SEC}

C7_FailureIsolated ==
    /\ ~raised
    /\ \A i \in DOMAIN pc : pc[i] # "failed"
    /\ \A i \in DOMAIN pc : pc[i] = "done" =>
          /\ ret[i][1] = uens[i]
          /\ got[i].exc # "" => (ret[i][2] = 0 /\ HasError(ret[i][3]))
          /\ (got[i].exc = "" /\ got[i].text \in JsonTexts) =>
                (ret[i][2] = got[i].status /\ ~HasError(ret[i][3]))
          /\ (got[i].exc = "" /\ ~JsonContentType(got[i])) =>
                (ret[i][2] = got[i].status /\ ~HasError(ret[i][3]))
    /\ returned => \A i \in 1..N : Count(results, ret[i]) = Count(ret, ret[i])

C7_Witness ==
    /\ returned
    /\ \E i, j \in 1..N :
          /\ got[i].exc # ""
          /\ ret[i][2] = 0
          /\ got[j].exc = ""
          /\ ret[j][2] = 200
          /\ uens[i] # uens[j]

\* the three shapes of a lookup's return value
ErrorShape(body) == DOMAIN body = {"error"}
RawShape(body, text) == body = [raw |-> text]
ParsedShape(body, text) == body = JsonValue(text)

\* C8 as stated: a lookup never raises; a successful exchange with a JSON
\* content type returns (remote status, parsed body), one with another content
\* type (remote status, {raw: text}), a transport failure (0, {error: ...});
\* status 0 if and only if the exchange failed at the transport level.
C8_ThreeShapes ==
    /\ ~raised
    /\ \A i \in DOMAIN pc : pc[i] = "done" =>
          /\ got[i].exc # "" => (ret[i][2] = 0 /\ ErrorShape(ret[i][3]))
          /\ (got[i].exc = "" /\ JsonContentType(got[i])) =>
                (ret[i][2] = got[i].status /\ ParsedShape(ret[i][3], got[i].text))
          /\ (got[i].exc = "" /\ ~JsonContentType(got[i])) =>
                (ret[i][2] = got[i].status /\ RawShape(ret[i][3], got[i].text))
          /\ (ret[i][2] = 0) <=> (got[i].exc # "")

\* a response arrived with a JSON content type and a text resp.json() cannot decode
Undecodable(x) == x.exc = "" /\ JsonContentType(x) /\ x.text \notin JsonTexts

\* C8, amended: a lookup never raises and returns one of the three shapes,
\* but the error shape (0, {error: ...}) is returned for every exception of
\* the exchange, so also when a response with a JSON content type carries a
\* body that cannot be decoded; status 0 if and only if the exchange failed at
\* the transport level or the body could not be decoded.
C8_ThreeShapesDecodable ==
    /\ ~raised
    /\ \A i \in DOMAIN pc : pc[i] = "done" =>
          /\ (got[i].exc # "" \/ Undecodable(got[i])) =>
                (ret[i][2] = 0 /\ ErrorShape(ret[i][3]) /\ HasError(ret[i][3]))
          /\ (got[i].exc = "" /\ JsonContentType(got[i]) /\ ~Undecodable(got[i])) =>
                (ret[i][2] = got[i].status /\ ParsedShape(ret[i][3], got[i].text))
          /\ (got[i].exc = "" /\ ~JsonContentType(got[i])) =>
                (ret[i][2] = got[i].status /\ RawShape(ret[i][3], got[i].text))
          /\ (ret[i][2] = 0) <=> (got[i].exc # "" \/ Undecodable(got[i]))

C8_Witness ==
    \E i \in DOMAIN pc :
        /\ pc[i] = "done"
        /\ Undecodable(got[i])
        /\ ret[i][2] = 0
        /\ ErrorShape(ret[i][3])

\* C12: given an empty identifier list, batch_lookup returns an empty result
\* list, issues no lookup, records nothing in the rate window and makes no
\* progress report.
C12_EmptyBatch ==
    N = 0 =>
        /\ results = <<>>
        /\ \A i \in DOMAIN sent : sent[i] = 0
        /\ recorded = 0
        /\ rate_ts = window0
        /\ processed = 0
        /\ progress = <<>>
        /\ ~raised

C12_Witness == N = 0 /\ returned /\ results = <<>> /\ rate_ts = window0

----------------------------------------------------------------------------
(* Properties of the result projector, checked under SpecProj *)

\* process_batch_results has returned a table
Projected == proj.runs >= 1 /\ proj.exc = ""

\* the identifier of row r of the table given to process_batch_results
RowToken(r) == ColumnTokens(proj.given, proj.given.cols[1])[r]

\* the positions of the identifier in the result list
Occurrences(uen) == {j \in 1..Len(results) : results[j][1] = uen}

\* the earliest of the positions
Earliest(occ) == CHOOSE j \in occ : \A k \in occ : j <= k

\* the three derived cells of row r of the returned table
Derived(r) ==
    [k \in 1..3 |-> df_out.rows[r][ColumnIndex(df_out, DerivedColumns[k])]]

\* the derived cells a body stands for: returnCode if present else empty,
\* data.registrationId if present else empty, and the body's JSON text
FieldsOf(body) ==
    <<IF IsDict(body) /\ "returnCode" \in DOMAIN body
      THEN IntValue(body.returnCode) ELSE StrValue(""),
      IF /\ IsDict(body)
         /\ "data" \in DOMAIN body
         /\ IsDict(body.data)
         /\ "registrationId" \in DOMAIN body.data
      THEN StrValue(body.data.registrationId) ELSE StrValue(""),
      StrValue(json_dumps(body))>>

\* C16: when an identifier occurs more than once in the result list, every row
\* carrying it receives the derived values of the first result recorded for it.
C16_FirstResultWins ==
    Projected =>
        \A r \in 1..Len(df_out.rows) :
            Cardinality(Occurrences(RowToken(r))) > 1 =>
                Derived(r) = FieldsOf(results[Earliest(Occurrences(RowToken(r)))][3])

C16_Witness ==
    /\ Projected
    /\ Len(results) = 2
    /\ results[1][1] = results[2][1]
    /\ FieldsOf(results[1][3]) # FieldsOf(results[2][3])
    /\ \E r \in 1..Len(df_out.rows) : \E q \in 1..Len(df_out.rows) :
          /\ r # q
          /\ RowToken(r) = results[1][1]
          /\ RowToken(q) = results[1][1]
          /\ Derived(r) = FieldsOf(results[1][3])
          /\ Derived(q) = Derived(r)

\* C17: the projected table has the same rows in the same order, every
\* original column unchanged, and exactly the three derived columns appended
\* in their fixed order.
C17_ThreeColumnsAppended ==
    Projected =>
        /\ df_out.cols = proj.given.cols \o DerivedColumns
        /\ Len(df_out.rows) = Len(proj.given.rows)
        /\ \A r \in 1..Len(df_out.rows) :
              SubSeq(df_out.rows[r], 1, Len(proj.given.cols)) = proj.given.rows[r]

\* a row with a result whose body makes extract_row raise
RaisingRow(r) ==
    /\ Occurrences(RowToken(r)) # {}
    /\ LET body == results[Earliest(Occurrences(RowToken(r)))][3]
       IN  IsDict(body) /\ "data" \in DOMAIN body /\ ~IsDict(body.data)

\* C18: every row whose identifier has no entry in the result list receives
\* all-empty derived fields, and the projection does not fail because of it.
C18_MissingEntriesBlank ==
    /\ Projected =>
          \A r \in 1..Len(df_out.rows) :
              Occurrences(RowToken(r)) = {} => Derived(r) = BlankFields
    /\ (proj.runs >= 1 /\ proj.exc # "") =>
          \/ proj.given.rows = <<>>
          \/ \E r \in 1..Len(proj.given.rows) : RaisingRow(r)

C18_Witness ==
    /\ Projected
    /\ \E r \in 1..Len(df_out.rows) : \E q \in 1..Len(df_out.rows) :
          /\ RowToken(r) # ""
          /\ Occurrences(RowToken(r)) = {}
          /\ Derived(r) = BlankFields
          /\ Occurrences(RowToken(q)) # {}
          /\ Derived(q) # BlankFields

\* C19: for every body shape process_batch_results completes without raising
\* and yields returnCode if present else empty and data.registrationId if
\* present else empty.
C19_DefensiveExtraction ==
    (proj.runs >= 1 /\ proj.given.rows # <<>>) =>
        /\ proj.exc = ""
        /\ \A r \in 1..Len(df_out.rows) :
              Occurrences(RowToken(r)) # {} =>
                  Derived(r) = FieldsOf(results[Earliest(Occurrences(RowToken(r)))][3])

----------------------------------------------------------------------------
(* Properties of the drivers, checked under SpecDrv *)

\* batch_lookup has been called
Dispatched == step \in {"batch", "done", "crash"}

\* the non-blank identifiers of column A, in input order
Found == SelectSeq(ColumnTokens(df_in, df_in.cols[1]), LAMBDA u : u # "")

\* the driver has shown the message of the cause
Shown(level, cause) ==
    \E k \in 1..Len(report) : report[k] = <<level, Message(variant, cause)>>

\* no lookup was issued and no timestamp was recorded
NoCalls ==
    /\ uens = <<>>
    /\ \A i \in DOMAIN sent : sent[i] = 0
    /\ recorded = 0
    /\ Len(rate_ts) <= Len(window0)
    /\ rate_ts = LastN(window0, Len(rate_ts))

CredentialsMissing == step # "start" /\ args.env # CredentialVars
TableUnreadable == args.file = "unreadable"
TableWithoutColumns == args.file = "ok" /\ df_in.cols = <<>>
BudgetExhausted == can_call # None /\ can_call <= 0

\* the level at which the front end reports a missing credential
CredentialsLevel == IF variant = "cli" THEN "error" ELSE "warning"

IsBlankCell(c) ==
    \/ c.t = "empty"
    \/ c.t = "text" /\ \A i \in 1..Len(c.chars) : c.chars[i] \in Whitespace

\* the rows of the input table whose identifier is not blank
NonBlankRows == {r \in 1..Len(df_in.rows) : ~IsBlankCell(df_in.rows[r][1])}

\* C15: rows whose first-column identifier is blank (empty cell or whitespace
\* only) are never dispatched and never recorded against the rate limiter, yet
\* appear in the output table with all three derived fields empty.
C15_BlankNeverDispatched ==
    /\ Dispatched =>
          /\ Len(uens) <= Cardinality(NonBlankRows)
          /\ recorded <= Cardinality(NonBlankRows)
    /\ step = "done" =>
          \A r \in 1..Len(df_out.rows) :
              IsBlankCell(proj.given.rows[r][1]) => Derived(r) = BlankFields

----------------------------------------------------------------------------
(* Properties of the dispatcher's order, progress and permits *)

\* the step <<name, n>> of task i, if it took one
HasStep(i, name, n) == \E k \in 1..Len(trace[i]) : trace[i][k] = <<name, n>>

\* the names of the steps task i has taken, in order
StepNames(i) == [k \in 1..Len(trace[i]) |-> trace[i][k][1]]

\* C28: the result list returned by batch_lookup of the command-line script
\* and of the sequential front end is in input order: it has one entry per
\* identifier and its i-th entry is the tuple of the i-th lookup, tagged with
\* the i-th identifier, whatever the concurrency and the order of completion.
C28_InputOrder ==
    (returned /\ variant \in {"cli", "sync"}) =>
        /\ Len(results) = Len(uens)
        /\ \A i \in 1..Len(uens) : results[i] = ret[i] /\ results[i][1] = uens[i]

\* the command-line script returned two different identifiers whose lookups
\* completed in the reverse of the input order
C28_Witness ==
    /\ returned
    /\ variant = "cli"
    /\ Len(uens) = 2
    /\ uens[1] # uens[2]
    /\ HasStep(2, "progress", 1)
    /\ HasStep(1, "progress", 2)
    /\ results[1][1] = uens[1]

\* the lookups that have completed
Completed == {i \in DOMAIN pc : pc[i] = "done"}

\* the number of "progress" steps task i has taken
Reports(i) == Cardinality({k \in 1..Len(trace[i]) : trace[i][k][1] = "progress"})

\* the sink was invoked once per completed lookup and never for another
OncePerCompleted ==
    /\ Len(progress) = Cardinality(Completed)
    /\ \A i \in DOMAIN pc : Reports(i) = (IF i \in Completed THEN 1 ELSE 0)

\* C22 as stated: the sink of the command-line script and of the sequential
\* front end is invoked once per completed lookup with the pair (completed,
\* total), the k-th report being (k, N), so that the last one is (N, N).
C22_CountAndTotal ==
    variant \in {"cli", "sync"} =>
        /\ OncePerCompleted
        /\ \A k \in 1..Len(progress) : progress[k] = <<k, N>>
        /\ returned => (N > 0 => progress[Len(progress)] = <<N, N>>)

\* C22, amended: the sink is invoked once per completed lookup; the
\* command-line script's k-th report is the pair (k, N), ending with (N, N);
\* the sequential front end's k-th report is the single number k / N, strictly
\* increasing and ending with 1.
C22_Progress ==
    /\ variant \in {"cli", "sync"} => OncePerCompleted
    /\ variant = "cli" =>
        /\ \A k \in 1..Len(progress) : progress[k] = <<k, N>>
        /\ returned => Len(progress) = N
    /\ variant = "sync" =>
        /\ \A k \in 1..Len(progress) :
              /\ progress[k][1] * N = k * progress[k][2]
              /\ progress[k][2] > 0
              /\ k > 1 => progress[k - 1][1] * progress[k][2]
                              < progress[k][1] * progress[k - 1][2]
        /\ returned => (Len(progress) = N /\ (N > 0 => progress[N] = <<1, 1>>))
    /\ variant = "ui" => progress = <<>>

\* the command-line script reported (1, 2) for the second identifier's lookup
\* and then (2, 2) for the first one's
C22_Witness ==
    /\ returned
    /\ variant = "cli"
    /\ N = 2
    /\ HasStep(2, "progress", 1)
    /\ progress = <<<<1, 2>>, <<2, 2>>>>

\* the order the claim fixes for the steps of one identifier
FixedOrder == <<"acquire", "record", "lookup", "progress", "release">>

\* the steps a task of each front end has taken when it is over
AllSteps(v) ==
    CASE v = "cli" -> <<"acquire", "record", "lookup", "progress", "release">>
      [] v = "ui" -> <<"acquire", "record", "lookup", "append", "release">>
      [] OTHER -> <<"record", "lookup", "append", "progress">>

IsPrefix(s, t) == Len(s) <= Len(t) /\ \A k \in 1..Len(s) : s[k] = t[k]

\* the steps of s that the fixed order names are in the fixed order
RECURSIVE InOrder(_, _)
InOrder(s, order) ==
    IF s = <<>> THEN TRUE
    ELSE IF \A k \in 1..Len(order) : order[k] # Head(s) THEN InOrder(Tail(s), order)
    ELSE order # <<>> /\ (IF Head(order) = Head(s)
                          THEN InOrder(Tail(s), Tail(order))
                          ELSE InOrder(s, Tail(order)))

\* the tasks inside "async with sem"
Holding ==
    {i \in DOMAIN pc : trace[i] # <<>> /\ trace[i][1][1] = "acquire"
                         /\ trace[i][Len(trace[i])][1] # "release"}

\* the lookups started so far
Started == {i \in DOMAIN pc : \E k \in 1..Len(trace[i]) : trace[i][k][1] = "lookup"}

\* C23: every identifier takes its steps in the fixed order acquire, record,
\* lookup, report progress, release (each front end taking the steps it has:
\* a task's trace is always a prefix of its front end's steps, and those are
\* in the fixed order);
\* so at every point of a batch the lookups started are at most the calls the
\* batch has recorded, and, where there is a semaphore, a call is recorded only
\* by a task that has acquired a permit and not yet released it.
C23_FixedOrder ==
    /\ \A v \in Variants : InOrder(AllSteps(v), FixedOrder)
    /\ LET all == AllSteps(variant)
       IN  \A i \in DOMAIN pc :
              /\ Len(trace[i]) <= Len(all)
              /\ \A k \in 1..Len(trace[i]) : trace[i][k][1] = all[k]
              /\ pc[i] = "done" => Len(trace[i]) = Len(all)
              /\ sent[i] = (IF i \in Started THEN 1 ELSE 0)
    /\ Cardinality(Started) <= recorded
    /\ variant \in {"cli", "ui"} =>
          /\ Cardinality(Holding) = concurrency - sem
          /\ \A i \in DOMAIN pc : pc[i] = "fetch" => i \in Holding

\* with one permit, the second identifier's task has gone through all five
\* steps and the first one's holds the permit, its call recorded and its
\* lookup under way
C23_Witness ==
    /\ variant = "cli"
    /\ N = 2
    /\ concurrency = 1
    /\ StepNames(2) = FixedOrder
    /\ StepNames(1) = <<"acquire", "record", "lookup">>
    /\ Holding = {1}
    /\ recorded = 2

\* what allowed_calls_remaining() would return now
Remaining == allowed_calls_remaining(rate_ts, None, clock)

\* C24: the dispatcher does not enforce the cap. Whatever the window holds, a
\* waiting identifier's task can start as soon as the concurrency bound (or the
\* loop's order) lets it, and the batch returns only after exactly one lookup
\* was issued and one call recorded for every identifier it was given.
C24_NoCapInDispatcher ==
    /\ returned =>
          /\ \A i \in DOMAIN pc : sent[i] = 1 /\ pc[i] = "done"
          /\ recorded = N
          /\ Len(results) = N
    /\ \A i \in DOMAIN pc :
          pc[i] = "wait" =>
              /\ (variant = "cli" /\ sem > 0) => ENABLED FetchStart(i)
              /\ (variant = "ui" /\ sem > 0) => ENABLED OneStart(i)
              /\ (variant = "sync" /\ ~raised /\ InFlight = {}
                    /\ i = Len(results) + 1) => ENABLED SeqStart(i)

\* a batch of two identifiers handed over when the window was full of
\* unexpired entries returned with a lookup issued for both
C24_Witness ==
    /\ returned
    /\ variant = "ui"
    /\ N = 2
    /\ allowed_calls_remaining(window0, None, Clock0) = 0
    /\ Remaining = 0
    /\ \A i \in DOMAIN pc : sent[i] = 1

----------------------------------------------------------------------------
(* Termination of the dispatcher *)

\* batch_lookup as the command-line script can call it: --concurrency is any
\* integer argparse accepts, and asyncio.Semaphore(0) is a legal semaphore with
\* no permit; the page's number input has min_value=1. The rate window plays no
\* part in the scheduling and starts empty, and the identifiers are opaque to
\* it, so a list is given by its length.
InitLive ==
    /\ variant \in Variants
    /\ clock = Clock0
    /\ rate_ts = <<>>
    /\ window0 = rate_ts
    /\ last = NoCall
    /\ run = <<>>
    /\ runClk = TRUE
    /\ uens \in {[i \in 1..n |-> "A"] : n \in 0..MaxN}
    /\ concurrency \in (CASE variant = "sync" -> {1}
                          [] variant = "ui" -> 1..MaxConc
                          [] OTHER -> 0..MaxConc)
    /\ sem = concurrency
    /\ pc = [i \in 1..Len(uens) |-> "wait"]
    /\ got = [i \in 1..Len(uens) |-> NoExchange]
    /\ ret = [i \in 1..Len(uens) |-> NoRet]
    /\ results = <<>>
    /\ processed = 0
    /\ progress = <<>>
    /\ trace = [i \in 1..Len(uens) |-> <<>>]
    /\ sent = [i \in 1..Len(uens) |-> 0]
    /\ recorded = 0
    /\ returned = FALSE
    /\ raised = FALSE
    /\ step = "batch"
    /\ args = NoArgs
    /\ NoDriver

\* the event loop runs a task that can enter the semaphore block (the for
\* loop goes on to its next identifier)
StartSome == \E i \in DOMAIN pc : FetchStart(i) \/ OneStart(i) \/ SeqStart(i)

\* a lookup under way completes or is cut off by its timeout
FinishSome ==
    \E i \in DOMAIN pc, x \in Exchanges : FetchDone(i, x) \/ OneDone(i, x) \/ SeqDone(i, x)

SpecLive ==
    /\ InitLive
    /\ [][Next]_vars
    /\ WF_vars(StartSome)
    /\ WF_vars(FinishSome)
    /\ WF_vars(Return)

\* C21: with a concurrency bound of at least 1, and every lookup completing
\* or timing out, batch_lookup returns; no task waits for a permit for ever
\* and every permit taken is given back.
C21_Terminates ==
    /\ (concurrency >= 1) ~> returned
    /\ \A i \in 1..MaxN :
          /\ (concurrency >= 1 /\ i \in DOMAIN pc /\ pc[i] = "wait") 
                ~> (i \in DOMAIN pc /\ pc[i] # "wait")
          /\ (i \in Holding) ~> (i \notin Holding)

\* one permit, two identifiers, the first lookup failed at the transport level
\* and the batch returned with every permit back
C21_Witness ==
    /\ returned
    /\ variant = "cli"
    /\ concurrency = 1
    /\ N = 2
    /\ got[1].exc # ""
    /\ ret[1][2] = 0
    /\ sem = concurrency
    /\ Holding = {}

----------------------------------------------------------------------------
(* Interruption of a batch run *)

\* Ctrl-C while the command-line script awaits the batch: asyncio.run cancels
\* the main task, the gather it awaits and with it every task not yet over;
\* a cancelled task leaves "async with sem" and gives its permit back;
\* "results = await asyncio.gather(...)" never completes, so batch_lookup
\* exits by the exception without a value, main prints "Interrupted by user"
\* and the process exits with 130.
Interrupt ==
    /\ variant = "cli"
    /\ ~returned
    /\ ~raised
    /\ InFlight # {}
    /\ pc' = [i \in DOMAIN pc |-> IF pc[i] = "done" THEN "done" ELSE "cancelled"]
    /\ sem' = concurrency
    /\ trace' = [i \in DOMAIN pc |->
                    IF pc[i] = "fetch" THEN Append(trace[i], <<"release", 0>>)
                    ELSE trace[i]]
    /\ raised' = TRUE
    /\ UNCHANGED <<drivervars, issued, variant, clock, rate_ts, last, run, runClk, uens,
                   concurrency, got, ret, results, processed, progress, sent,
                   recorded, window0, returned>>

NextInt ==
    \/ Next
    \/ Interrupt

SpecInt == Init /\ [][NextInt]_vars

\* the run was interrupted
Interrupted == \E i \in DOMAIN pc : pc[i] = "cancelled"

\* what the caller of batch_lookup holds: the returned list, if it returned
CallerResults == IF returned THEN results ELSE <<>>

\* the window holds one timestamp per call the batch recorded, each the clock
\* of its recording, oldest first
WindowKept ==
    /\ Len(rate_ts) = Len(window0) + recorded
    /\ \A k \in 1..Len(rate_ts) : rate_ts[k] \in Clock0..clock
    /\ \A k \in 1..(Len(rate_ts) - 1) : rate_ts[k] <= rate_ts[k + 1]

\* C25: after an interruption with lookups in flight, the result of every
\* lookup that had completed is available to the caller, and the window holds
\* exactly one well-formed entry per call recorded before the interruption.
C25_CompletedResultsKept ==
    Interrupted =>
        /\ \A i \in Completed :
              \E k \in 1..Len(CallerResults) : CallerResults[k] = ret[i]
        /\ WindowKept

\* the window after an interruption, alone
WindowKeptAfterInterrupt == Interrupted => WindowKept

\* an interruption with one lookup completed and one in flight
InterruptedMidBatch ==
    /\ Interrupted
    /\ Completed # {}
    /\ CallerResults = <<>>

----------------------------------------------------------------------------
(* The command-line driver's rate check *)

\* C27: in the command-line script the window is empty when a run starts and
\* nothing records before the pre-dispatch check, so the check reads
\* RATE_LIMIT_MAX, the "rate limit reached" exit is never taken, and a run
\* dispatches at most RATE_LIMIT_MAX identifiers: all of them, or the first
\* RATE_LIMIT_MAX with the warning.
C27_FreshWindowEachRun ==
    variant = "cli" =>
        /\ step = "start" => rate_ts = <<>>
        /\ ~Shown("error", "ratelimit")
        /\ Dispatched =>
              /\ can_call = RATE_LIMIT_MAX
              /\ window0 = <<>>
              /\ Len(uens) <= RATE_LIMIT_MAX
              /\ uens = SubSeq(Found, 1, Min(RATE_LIMIT_MAX, Len(Found)))
              /\ Shown("warning", "truncated") <=> Len(Found) > RATE_LIMIT_MAX

\* a run of the command-line script over a table with more identifiers than
\* the cap: the check read RATE_LIMIT_MAX and exactly that many were dispatched
\* and looked up
C27_Witness ==
    /\ variant = "cli"
    /\ step = "done"
    /\ Len(Found) = RATE_LIMIT_MAX + 1
    /\ can_call = RATE_LIMIT_MAX
    /\ Len(uens) = RATE_LIMIT_MAX
    /\ Shown("warning", "truncated")
    /\ recorded = RATE_LIMIT_MAX

----------------------------------------------------------------------------
(* A session of a page script: runs of the script over one rate window *)

\* the latest instant of a session: long enough for a full window to expire
\* and fill again
SessionEnd == Clock0 + RATE_LIMIT_WINDOW_SEC + 2

\* the instants of ts that lie in the window that ends at now
Recent(ts, now) == SelectSeq(ts, LAMBDA t : now - t <= RATE_LIMIT_WINDOW_SEC)

\* the uploaded files of a session: column A holds identifiers only (the
\* rate accounting sees their number alone)
SessionTables ==
    {Table("Name", [i \in 1..n |-> Text(<<" ", "A">>)]) : n \in 1..MaxN}

\* the remote service answers (what it answers plays no part in the accounting)
SessionExchanges == {x \in DrvExchanges : x.exc = ""}

InitSession ==
    /\ variant \in {"ui", "sync"}
    /\ clock = Clock0
    /\ rate_ts = <<>>
    /\ last = NoCall
    /\ run = <<>>
    /\ runClk = TRUE
    /\ NoBatch
    /\ step = "start"
    /\ args = NoArgs
    /\ NoDriver

\* "Process File" pressed with the credentials set and a readable file
SessionRun ==
    /\ variant \in {"ui", "sync"}
    /\ step = "start"
    /\ \E table \in SessionTables :
         \E conc \in (IF variant = "sync" THEN {1} ELSE {1, MaxConc}) :
           PageRun(CredentialVars, "ok", table, conc)

\* the steps of batch_lookup in a session
SessionBatchStep ==
    /\ step = "batch"
    /\ \/ \E i \in DOMAIN pc : OneStart(i)
       \/ \E i \in DOMAIN pc : \E x \in SessionExchanges : OneDone(i, x)
       \/ \E i \in DOMAIN pc : SeqStart(i)
       \/ \E i \in DOMAIN pc : \E x \in SessionExchanges : SeqDone(i, x)
       \/ Return

\* the script run is over (st.stop(), or the end of the script after the
\* batch); the next interaction runs the script again over the same
\* st.session_state
Rerun ==
    /\ step = "halt" \/ (step = "batch" /\ returned)
    /\ step' = "start"
    /\ issued' = Recent(issued, clock)
    /\ report' = <<>>
    /\ can_call' = None
    /\ df_in' = NoTable
    /\ df_out' = NoTable
    /\ args' = NoArgs
    /\ proj' = NoProj
    /\ uens' = <<>>
    /\ concurrency' = 1
    /\ sem' = 1
    /\ pc' = <<>>
    /\ got' = <<>>
    /\ ret' = <<>>
    /\ results' = <<>>
    /\ processed' = 0
    /\ progress' = <<>>
    /\ trace' = <<>>
    /\ sent' = <<>>
    /\ recorded' = 0
    /\ window0' = <<>>
    /\ returned' = FALSE
    /\ raised' = FALSE
    /\ UNCHANGED <<variant, clock, rate_ts, last, run, runClk>>

\* "if allowed_calls_remaining() <= 0: st.error(...) else: <lookup>"
QuickGateOpen(r) == TRUE
QuickGate(r) == ~(r <= 0)

\* "Check Now" pressed: the gate and, if it is open, the lookup
QuickStart ==
    /\ variant \in {"ui", "sync"}
    /\ step = "start"
    /\ rate_ts' = RemainingWindow(rate_ts, None, clock)
    /\ IF QuickGate(allowed_calls_remaining(rate_ts, None, clock))
       THEN /\ step' = "quick"
            /\ issued' = Append(issued, clock)
            /\ report' = <<>>
       ELSE /\ step' = "start"
            /\ issued' = issued
            /\ report' = <<<<"error", Message(variant, "ratelimit")>>>>
    /\ UNCHANGED <<variant, clock, last, run, runClk, can_call, df_in, df_out, args, proj>>
    /\ UNCHANGED batchvars

\* the quick check's lookup has returned: record_call(), then the result is
\* shown and the script run ends
QuickDone ==
    /\ step = "quick"
    /\ rate_ts' = record_call(variant, rate_ts, None, clock)
    /\ step' = "start"
    /\ UNCHANGED <<variant, clock, last, run, runClk, report, can_call, df_in, df_out,
                   args, proj, issued>>
    /\ UNCHANGED batchvars

\* time passes: between two runs, during a batch, during a quick check
SessionTick ==
    /\ clock < SessionEnd
    /\ clock' = clock + 1
    /\ issued' = Recent(issued, clock + 1)
    /\ UNCHANGED <<variant, rate_ts, last, run, runClk, step, report, can_call, df_in,
                   df_out, args, proj>>
    /\ UNCHANGED batchvars

NextSession ==
    \/ SessionRun
    \/ SessionBatchStep
    \/ Rerun
    \/ QuickStart
    \/ QuickDone
    \/ SessionTick

SpecSession == InitSession /\ [][NextSession]_vars

\* the lookups issued in the window that ends now
IssuedInWindow == Len(Recent(issued, clock))

\* the entries of the window that have not expired
Unexpired == Recent(rate_ts, clock)

\* C26: in a session whose batches are capped by the driver and whose quick
\* checks are gated, at every instant the lookups issued within the trailing
\* window are at most RATE_LIMIT_MAX, and a step that changes the window keeps
\* every unexpired entry (a record never evicts one by capacity).
C26_SessionWithinCap ==
    /\ [](IssuedInWindow <= RATE_LIMIT_MAX)
    /\ [][rate_ts' # rate_ts => IsPrefix(Unexpired, rate_ts')]_vars

\* the window was filled, expired and was filled again: a capped batch runs
\* while an earlier lookup is still within the trailing window
C26_Witness ==
    /\ step = "batch"
    /\ returned
    /\ can_call = 1
    /\ Len(Found) = 2
    /\ Len(uens) = 1
    /\ Len(issued) = 2
    /\ issued[1] < issued[2]
    /\ IssuedInWindow = RATE_LIMIT_MAX
    /\ clock > Clock0 + RATE_LIMIT_WINDOW_SEC

====
